---- MODULE Spec2Model ----
(***************************************************************************)
(* Model of plot.py: a Streamlit page that loads heat-spot detections and  *)
(* province boundaries once per session, filters the detections by date,   *)
(* joins them to the provinces, and renders a map and a count table.       *)
(*                                                                         *)
(* A DataFrame is a record [columns, index, rows]: the set of column       *)
(* names, the sequence of index labels and the sequence of rows, each row  *)
(* a function from the column names to values.  A geometry is the set of   *)
(* <<lon, lat>> points that lie within the polygon.  A calendar date is    *)
(* its ordinal in Calendar, so dates compare as the calendar orders them.  *)
(***************************************************************************)
EXTENDS Integers, Sequences, FiniteSets, TLC

VARIABLES
  disk_parquet,     \* the parquet files under df_thai: a sequence of frames
  disk_shp,         \* the province shapefile as read by gpd.read_file
  all_data,         \* st.session_state.all_data, NotLoaded until set
  gdf,              \* st.session_state.gdf, NotLoaded until set
  n_data_loads,     \* assignments made to st.session_state.all_data
  n_gdf_loads,      \* assignments made to st.session_state.gdf
  filter_mode,      \* the criteria of the last script run (None: unset)
  start_date,
  end_date,
  exact_date,
  error,            \* exception that ended the last script run, or None
  rendered,         \* components.html was reached in the last script run
  df_filtered,      \* generate_heatmap's locals at its return
  heat_data,
  joined,
  province_counts,  \* the second value generate_heatmap returns (the table)
  gdf_merged,       \* the local gdf after the merge (the province layer)
  normalized,
  heatmap_layer     \* a HeatMap layer was added to the map

vars == <<disk_parquet, disk_shp, all_data, gdf, n_data_loads, n_gdf_loads,
          filter_mode, start_date, end_date, exact_date, error, rendered,
          df_filtered, heat_data, joined, province_counts, gdf_merged,
          normalized, heatmap_layer>>

(* ------------------------------ bounds --------------------------------- *)

\* Rows of the detection dataset on disk.
MaxDet == 2

(* ------------------------------ values --------------------------------- *)

None == "None"
NaN == "NaN"

\* start_date = end_date = None, exact_date = None: no date.  Dates are
\* 1..Len(Calendar), so 0 is none of them.
NoDate == 0
NotLoaded == [columns |-> {"<not in session_state>"}, index |-> <<>>, rows |-> <<>>]

\* The calendar dates of the model, in calendar order.
Calendar == <<"2025-04-01", "2025-04-10">>
Dates == 1..Len(Calendar)

\* pd.to_datetime(s).dt.date and datetime(y, m, d) as a date_input value.
to_date(s) == CHOOSE d \in 1..Len(Calendar) : Calendar[d] = s

Lats == {0, 1}
Lons == {0, 1}
Brightnesses == {200, 300, 450}

EmptyFrame == [columns |-> {}, index |-> <<>>, rows |-> <<>>]

RECURSIVE SeqSum(_)
SeqSum(s) == IF s = <<>> THEN 0 ELSE Head(s) + SeqSum(Tail(s))

RECURSIVE Flatten(_)
Flatten(ss) == IF ss = <<>> THEN <<>> ELSE Head(ss) \o Flatten(Tail(ss))

\* The positions at which a boolean mask is true, in increasing order.
RECURSIVE TruePositions(_, _)
TruePositions(mask, k) ==
  IF k > Len(mask) THEN <<>>
  ELSE (IF mask[k] THEN <<k>> ELSE <<>>) \o TruePositions(mask, k + 1)

\* df[mask]: the rows whose mask is true, with their index labels.
BoolIndex(df, mask) ==
  LET pos == TruePositions(mask, 1)
  IN [columns |-> df.columns,
      index   |-> [k \in 1..Len(pos) |-> df.index[pos[k]]],
      rows    |-> [k \in 1..Len(pos) |-> df.rows[pos[k]]]]

(* ------------------------------ loaders -------------------------------- *)

\* gdf.drop(columns=gdf.select_dtypes(include=['datetime64']).columns)
DropDatetime(shp) ==
  LET keep == {c \in DOMAIN shp.dtypes : shp.dtypes[c] # "datetime64"}
  IN [columns |-> keep,
      index   |-> shp.index,
      rows    |-> [k \in 1..Len(shp.rows) |-> [c \in keep |-> shp.rows[k][c]]]]

load_shapefile(shp) == DropDatetime(shp)

\* pd.concat(dfs, ignore_index=True): rows in file order, index 0..n-1.
concat(dfs) ==
  LET rs == Flatten([i \in 1..Len(dfs) |-> dfs[i].rows])
  IN [columns |-> UNION {dfs[i].columns : i \in 1..Len(dfs)},
      index   |-> [k \in 1..Len(rs) |-> k - 1],
      rows    |-> rs]

\* No parquet file: pd.concat([]) raises ValueError.
LoadRaises(files) == files = <<>>

load_parquet_data_combined(files) ==
  LET combined_df == concat(files)
  IN [combined_df EXCEPT !.rows =
        [k \in 1..Len(combined_df.rows) |->
           [combined_df.rows[k] EXCEPT !["acq_date"] = to_date(@)]]]

(* ---------------------------- filter_by_date --------------------------- *)

InRangeStrictEnd(d, date_start, date_end) == d >= date_start /\ d < date_end

InRange(d, date_start, date_end) == d >= date_start /\ d <= date_end

IsExactOrLater(d, date_exact) == d >= date_exact

IsExact(d, date_exact) == d = date_exact

filter_by_date(df, mode, date_start, date_end, date_exact) ==
  IF mode = "range"
  THEN BoolIndex(df, [k \in 1..Len(df.rows) |->
                        InRange(df.rows[k]["acq_date"], date_start, date_end)])
  ELSE BoolIndex(df, [k \in 1..Len(df.rows) |->
                        IsExact(df.rows[k]["acq_date"], date_exact)])

(* --------------------------- generate_heatmap -------------------------- *)

HasHeatDataEitherColumn(df) ==
  /\ ("latitude" \in df.columns \/ "longitude" \in df.columns)
  /\ df.rows # <<>>

\* 'latitude' in columns and 'longitude' in columns and not df_filtered.empty
HasHeatData(df) ==
  /\ "latitude" \in df.columns
  /\ "longitude" \in df.columns
  /\ df.rows # <<>>

\* df_filtered['brightness'] = df_filtered.get('brightness', 1)
AssignBrightness(df) ==
  LET cols == df.columns \cup {"brightness"}
  IN [df EXCEPT
        !.columns = cols,
        !.rows = [k \in 1..Len(df.rows) |->
                    [c \in cols |->
                       IF c \in df.columns THEN df.rows[k][c] ELSE 1]]]

\* df[['latitude', 'longitude', 'brightness']] raises KeyError on a missing column.
ColumnsMissing(df) == ~({"latitude", "longitude", "brightness"} \subseteq df.columns)

\* df_filtered[['latitude', 'longitude', 'brightness']].values.tolist()
HeatData(df) ==
  [k \in 1..Len(df.rows) |->
     <<df.rows[k]["latitude"], df.rows[k]["longitude"], df.rows[k]["brightness"]>>]

PointLatLon(lat, lon) == <<lat, lon>>

\* Point(lon, lat): x is the longitude, y the latitude.
Point(lon, lat) == <<lon, lat>>

\* [Point(lon, lat) for lat, lon, _ in heat_data]
HeatPoints(hd) == [k \in 1..Len(hd) |-> Point(hd[k][2], hd[k][1])]

\* predicate="within": the point lies within the polygon.
Within(pt, geometry) == pt \in geometry

\* gpd.sjoin(heat_points, gdf, how="left", predicate="within"): one row per
\* (point, containing region) pair, and one row with NaN for a point that no
\* region contains; left rows in order, right matches in region order.
sjoin(points, regions) ==
  LET matches(k) ==
        SelectSeq([j \in 1..Len(regions.rows) |-> j],
                  LAMBDA j : Within(points[k], regions.rows[j]["geometry"]))
      rowsOf(k) ==
        IF matches(k) = <<>>
        THEN << [left |-> k - 1, ADM1_TH |-> NaN] >>
        ELSE [m \in 1..Len(matches(k)) |->
                [left |-> k - 1, ADM1_TH |-> regions.rows[matches(k)[m]]["ADM1_TH"]]]
  IN Flatten([k \in 1..Len(points) |-> rowsOf(k)])

Permutations1(n) ==
  {f \in [1..n -> 1..n] : \A i, j \in 1..n : i # j => f[i] # f[j]}

NonIncreasing(t) ==
  \A i \in 1..Len(t) - 1 : t[i].heat_spot_count >= t[i + 1].heat_spot_count

NonDecreasing(t) ==
  \A i \in 1..Len(t) - 1 : t[i].heat_spot_count <= t[i + 1].heat_spot_count

\* joined['ADM1_TH'].value_counts().reset_index() with the columns renamed:
\* one row per name that occurs (NaN dropped), by count descending.  The order
\* among equal counts is whatever the unstable sort leaves, so every order is
\* a possible outcome.
value_counts(j) ==
  LET names == {j[i].ADM1_TH : i \in 1..Len(j)} \ {NaN}
      n == Cardinality(names)
      count(nm) == Cardinality({i \in 1..Len(j) : j[i].ADM1_TH = nm})
      orders == {f \in [1..n -> names] : \A a, b \in 1..n : a # b => f[a] # f[b]}
      table(f) == [i \in 1..n |-> [ADM1_TH |-> f[i], heat_spot_count |-> count(f[i])]]
  IN {table(f) : f \in {g \in orders : NonIncreasing(table(g))}}

sort_values_ascending(t) ==
  {q \in {[i \in 1..Len(t) |-> t[p[i]]] : p \in Permutations1(Len(t))} :
     NonDecreasing(q)}

\* province_counts.sort_values("heat_spot_count", ascending=False): the default
\* sort kind is quicksort, which is not stable.
sort_values(t) ==
  {q \in {[i \in 1..Len(t) |-> t[p[i]]] : p \in Permutations1(Len(t))} :
     NonIncreasing(q)}

\* gdf.merge(province_counts, on='ADM1_TH', how='left'): every left row, in
\* order, once per matching right row, or once with a missing value.
merge(regions, counts) ==
  LET cols == regions.columns \cup {"heat_spot_count"}
      with(r, v) == [c \in cols |-> IF c = "heat_spot_count" THEN v ELSE r[c]]
      hits(r) == SelectSeq(counts, LAMBDA t : t.ADM1_TH = r["ADM1_TH"])
      rowsOf(r) ==
        IF hits(r) = <<>> THEN << with(r, {}) >>
        ELSE [m \in 1..Len(hits(r)) |-> with(r, {hits(r)[m].heat_spot_count})]
      rs == Flatten([k \in 1..Len(regions.rows) |-> rowsOf(regions.rows[k])])
  IN [columns |-> cols, index |-> [k \in 1..Len(rs) |-> k - 1], rows |-> rs]

\* gdf['heat_spot_count'].fillna(0).astype(int)
fillna0(m) ==
  [m EXCEPT !.rows =
     [k \in 1..Len(m.rows) |->
        [m.rows[k] EXCEPT !["heat_spot_count"] =
           IF @ = {} THEN 0 ELSE CHOOSE v \in @ : TRUE]]]

min_b == 250
max_b == 400

PyMin(a, b) == IF b < a THEN b ELSE a
PyMax(a, b) == IF b > a THEN b ELSE a

WeightUnclamped(b) == [num |-> b - min_b, den |-> max_b - min_b]

\* b = max(min_b, min(b, max_b)); weight = (b - min_b) / (max_b - min_b),
\* the quotient kept as numerator and denominator.
Weight(b) ==
  LET clamped == PyMax(min_b, PyMin(b, max_b))
  IN [num |-> clamped - min_b, den |-> max_b - min_b]

Normalize(hd) == [k \in 1..Len(hd) |-> <<hd[k][1], hd[k][2], Weight(hd[k][3])>>]

\* Division by zero in the loop, taken when there is a point to normalize.
NormalizeRaises(hd) == hd # <<>> /\ max_b - min_b = 0

CallerFrameMutated(arg, local) == local

\* The frame the caller passed, after the call: the function rebinds its own
\* name to new frames (a filtered copy, a merge result) and assigns columns
\* only to those, so the caller's frame is as it was.
CallerFrame(arg, local) == arg

Aborted(exc, df_all, regions) ==
  [error |-> exc, df_filtered |-> EmptyFrame, heat_data |-> <<>>, joined |-> <<>>,
   province_counts |-> <<>>, gdf |-> EmptyFrame, normalized |-> <<>>,
   heatmap_layer |-> FALSE, df_all |-> df_all, gdf_arg |-> regions]

\* The possible outcomes of one call: the locals at the return, the exception
\* if one is raised, and the two frames passed in as they are afterwards.
generate_heatmap(mode, date_start, date_end, date_exact, regions, df_all) ==
  LET df0 == filter_by_date(df_all, mode, date_start, date_end, date_exact)
      has == HasHeatData(df0)
      df1 == IF has THEN AssignBrightness(df0) ELSE df0
      hd  == IF has THEN HeatData(df1) ELSE <<>>
      j   == sjoin(HeatPoints(hd), regions)
      after(t) ==
        [error |-> None, df_filtered |-> df1, heat_data |-> hd, joined |-> j,
         province_counts |-> t, gdf |-> fillna0(merge(regions, t)),
         normalized |-> Normalize(hd), heatmap_layer |-> Normalize(hd) # <<>>,
         df_all |-> CallerFrame(df_all, df1),
         gdf_arg |-> CallerFrame(regions, fillna0(merge(regions, t)))]
  IN IF has /\ ColumnsMissing(df1)
     THEN {Aborted("KeyError", CallerFrame(df_all, df1), regions)}
     ELSE IF NormalizeRaises(hd)
     THEN {Aborted("ZeroDivisionError", CallerFrame(df_all, df1), regions)}
     ELSE UNION {{after(s) : s \in sort_values(t)} : t \in value_counts(j)}

(* ------------------------------ the inputs ----------------------------- *)

AllColumns == {"acq_date", "latitude", "longitude", "brightness"}

\* acq_date, latitude and longitude are required, brightness is optional; a
\* dataset may still come without one of the coordinate columns.
ColumnSets ==
  {AllColumns, AllColumns \ {"brightness"},
   AllColumns \ {"latitude"}, AllColumns \ {"longitude"}}

FullRows ==
  [acq_date : {Calendar[d] : d \in Dates}, latitude : Lats, longitude : Lons,
   brightness : Brightnesses]

RowsOver(cols) == {[c \in cols |-> r[c]] : r \in FullRows}

ParquetFiles ==
  UNION {{[columns |-> cols, index |-> [k \in 1..n |-> k - 1], rows |-> rs] :
            rs \in [1..n -> RowsOver(cols)]} :
         cols \in ColumnSets, n \in 0..MaxDet}

ParquetDisks == {<<>>} \cup {<<f>> : f \in ParquetFiles}

ShpDtypes == [ADM1_TH |-> "object", geometry |-> "geometry", validOn |-> "datetime64"]

Shapefile(geoms) ==
  [dtypes |-> ShpDtypes,
   columns |-> DOMAIN ShpDtypes,
   index |-> [k \in 1..Len(geoms) |-> k - 1],
   rows |-> [k \in 1..Len(geoms) |->
               [ADM1_TH |-> geoms[k][1], geometry |-> geoms[k][2],
                validOn |-> "2021-01-21"]]]

\* Three provinces that share no point, and two provinces that both contain
\* the point <<1, 1>>.
ShpDisks ==
  {Shapefile(<< <<"A", {<<0, 1>>}>>, <<"B", {<<1, 1>>}>>, <<"C", {<<1, 0>>}>> >>),
   Shapefile(<< <<"A", {<<0, 1>>, <<1, 1>>}>>, <<"B", {<<1, 1>>, <<1, 0>>}>> >>)}

(* ------------------------------ the session ---------------------------- *)

Init ==
  /\ disk_parquet \in ParquetDisks
  /\ disk_shp \in ShpDisks
  /\ all_data = NotLoaded
  /\ gdf = NotLoaded
  /\ n_data_loads = 0
  /\ n_gdf_loads = 0
  /\ filter_mode = None
  /\ start_date = NoDate
  /\ end_date = NoDate
  /\ exact_date = NoDate
  /\ error = None
  /\ rendered = FALSE
  /\ df_filtered = EmptyFrame
  /\ heat_data = <<>>
  /\ joined = <<>>
  /\ province_counts = <<>>
  /\ gdf_merged = EmptyFrame
  /\ normalized = <<>>
  /\ heatmap_layer = FALSE

\* One run of the script, given what the sidebar widgets return in it.
main(mode_w, start_w, end_w, exact_w) ==
  IF all_data = NotLoaded /\ LoadRaises(disk_parquet)
  THEN /\ error' = "ValueError"
       /\ rendered' = FALSE
       /\ df_filtered' = EmptyFrame
       /\ heat_data' = <<>>
       /\ joined' = <<>>
       /\ province_counts' = <<>>
       /\ gdf_merged' = EmptyFrame
       /\ normalized' = <<>>
       /\ heatmap_layer' = FALSE
       /\ UNCHANGED <<disk_parquet, disk_shp, all_data, gdf, n_data_loads,
                      n_gdf_loads, filter_mode, start_date, end_date, exact_date>>
  ELSE LET df_all == IF all_data = NotLoaded
                     THEN load_parquet_data_combined(disk_parquet)
                     ELSE all_data
           regions == IF gdf = NotLoaded THEN load_shapefile(disk_shp) ELSE gdf
           s == IF mode_w = "range" THEN start_w ELSE NoDate
           e == IF mode_w = "range" THEN end_w ELSE NoDate
           x == IF mode_w = "range" THEN NoDate ELSE exact_w
       IN \E r \in generate_heatmap(mode_w, s, e, x, regions, df_all) :
            /\ all_data' = r.df_all
            /\ gdf' = r.gdf_arg
            /\ n_data_loads' = IF all_data = NotLoaded THEN n_data_loads + 1
                               ELSE n_data_loads
            /\ n_gdf_loads' = IF gdf = NotLoaded THEN n_gdf_loads + 1
                              ELSE n_gdf_loads
            /\ filter_mode' = mode_w
            /\ start_date' = s
            /\ end_date' = e
            /\ exact_date' = x
            /\ error' = r.error
            /\ rendered' = (r.error = None)
            /\ df_filtered' = r.df_filtered
            /\ heat_data' = r.heat_data
            /\ joined' = r.joined
            /\ province_counts' = r.province_counts
            /\ gdf_merged' = r.gdf
            /\ normalized' = r.normalized
            /\ heatmap_layer' = r.heatmap_layer
            /\ UNCHANGED <<disk_parquet, disk_shp>>

\* What each widget returns in a run the user did not touch it in: its value
\* of the last run if it was shown then, its default otherwise.
ModeWidget == IF filter_mode = None THEN "exact" ELSE filter_mode
StartWidget == IF filter_mode = "range" THEN start_date ELSE to_date("2025-04-01")
EndWidget == IF filter_mode = "range" THEN end_date ELSE to_date("2025-04-10")
ExactWidget == IF filter_mode = "exact" THEN exact_date ELSE to_date("2025-04-10")

\* The page is opened or reloaded.
Rerun == main(ModeWidget, StartWidget, EndWidget, ExactWidget)

SelectMode(m) ==
  /\ filter_mode # None
  /\ m # filter_mode
  /\ main(m, StartWidget, EndWidget, ExactWidget)

SelectStartDate(d) ==
  /\ filter_mode = "range"
  /\ d # start_date
  /\ main("range", d, EndWidget, ExactWidget)

SelectEndDate(d) ==
  /\ filter_mode = "range"
  /\ d # end_date
  /\ main("range", StartWidget, d, ExactWidget)

SelectExactDate(d) ==
  /\ filter_mode = "exact"
  /\ d # exact_date
  /\ main("exact", StartWidget, EndWidget, d)

Next ==
  \/ Rerun
  \/ \E m \in {"exact", "range"} : SelectMode(m)
  \/ \E d \in Dates : SelectStartDate(d)
  \/ \E d \in Dates : SelectEndDate(d)
  \/ \E d \in Dates : SelectExactDate(d)

Spec == Init /\ [][Next]_vars

(* ------------------------------ properties ----------------------------- *)

\* generate_heatmap was called in the last run that got past the loaders.
Called == filter_mode # None

Completed == Called /\ error = None

\* The position in the base detections of the k-th filtered detection.
BasePos(k) == df_filtered.index[k] + 1

Matches(row) ==
  IF filter_mode = "exact"
  THEN row["acq_date"] = exact_date
  ELSE start_date <= row["acq_date"] /\ row["acq_date"] <= end_date

\* C1: filter_by_date returns exactly the matching detections: in exact mode
\* those whose acq_date equals date_exact, in range mode those with
\* date_start <= acq_date <= date_end; each matching detection once, unchanged
\* and in order, nothing else, and an empty result raises no error.
C1_FilterReturnsExactlyTheMatches ==
  Called =>
    /\ error = None
    /\ \A k \in 1..Len(df_filtered.rows) :
         /\ BasePos(k) \in 1..Len(all_data.rows)
         /\ Matches(all_data.rows[BasePos(k)])
         /\ \A c \in all_data.columns :
              df_filtered.rows[k][c] = all_data.rows[BasePos(k)][c]
         /\ \A k2 \in 1..Len(df_filtered.rows) : k < k2 => BasePos(k) < BasePos(k2)
    /\ \A i \in 1..Len(all_data.rows) :
         Matches(all_data.rows[i]) =>
           \E k \in 1..Len(df_filtered.rows) : BasePos(k) = i
    /\ (\A i \in 1..Len(all_data.rows) : ~Matches(all_data.rows[i]))
         => df_filtered.rows = <<>>

\* A range filter that keeps some detections and leaves others out.
C1_Witness ==
  /\ Completed
  /\ filter_mode = "range"
  /\ df_filtered.rows # <<>>
  /\ Len(df_filtered.rows) < Len(all_data.rows)

\* A detection of the filtered set is matched when some joined row pairs it
\* with a region, unmatched when it falls in no region (a detection that got
\* no point, for want of a coordinate column, falls in none).
Matched(k) ==
  \E i \in 1..Len(joined) : joined[i].left = k - 1 /\ joined[i].ADM1_TH # NaN

unmatched_count == Cardinality({k \in 1..Len(df_filtered.rows) : ~Matched(k)})

\* C2: the per-region counts and the detections in no region add up to the
\* filtered detections: each detection is counted for one region or for none,
\* also when two region polygons both contain its point.
C2_CountsPartitionTheDetections ==
  Completed =>
    SeqSum([i \in 1..Len(province_counts) |-> province_counts[i].heat_spot_count])
      + unmatched_count = Len(df_filtered.rows)

PointsIn(geometry) ==
  {i \in 1..Len(heat_data) : <<heat_data[i][2], heat_data[i][1]>> \in geometry}

TableRows(name) ==
  {i \in 1..Len(province_counts) : province_counts[i].ADM1_TH = name}

\* C3: every loaded region is in the returned table exactly once, with count 0
\* when no filtered detection falls inside it.
C3_EveryRegionOnceInTheTable ==
  Completed =>
    \A k \in 1..Len(gdf.rows) :
      /\ Cardinality(TableRows(gdf.rows[k]["ADM1_TH"])) = 1
      /\ \A i \in TableRows(gdf.rows[k]["ADM1_TH"]) :
           PointsIn(gdf.rows[k]["geometry"]) = {}
             => province_counts[i].heat_spot_count = 0

NoHeatInput ==
  \/ df_filtered.rows = <<>>
  \/ "latitude" \notin all_data.columns
  \/ "longitude" \notin all_data.columns

\* C4: with no filtered detection, or without a latitude or a longitude
\* column, generate_heatmap raises nothing, every region's heat_spot_count is
\* 0, and the heat point layer is empty with no HeatMap layer added.
C4_NoHeatInputGivesZeroCounts ==
  (Called /\ NoHeatInput) =>
    /\ error = None
    /\ Len(gdf_merged.rows) = Len(gdf.rows)
    /\ \A k \in 1..Len(gdf_merged.rows) : gdf_merged.rows[k]["heat_spot_count"] = 0
    /\ heat_data = <<>>
    /\ normalized = <<>>
    /\ heatmap_layer = FALSE

\* Detections pass the filter but the dataset has no latitude column.
C4_Witness ==
  /\ Completed
  /\ "latitude" \notin all_data.columns
  /\ df_filtered.rows # <<>>
  /\ gdf_merged.rows # <<>>

RegionPos(name) == CHOOSE k \in 1..Len(gdf.rows) : gdf.rows[k]["ADM1_TH"] = name

\* C5 as stated: the table is ordered by count descending, and regions with
\* equal counts keep the order they have in the loaded regions.
C5_DescendingStableByRegionOrder ==
  Completed =>
    /\ NonIncreasing(province_counts)
    /\ \A i, j \in 1..Len(province_counts) :
         (i < j /\ province_counts[i].heat_spot_count = province_counts[j].heat_spot_count)
           => RegionPos(province_counts[i].ADM1_TH) < RegionPos(province_counts[j].ADM1_TH)

\* C5 as amended: the table is ordered by count descending; the order among
\* regions with equal counts is not fixed.
C5_TableDescending ==
  Completed =>
    \A i, j \in 1..Len(province_counts) :
      i < j => province_counts[i].heat_spot_count >= province_counts[j].heat_spot_count

\* A table of two regions with different counts.
C5_Witness ==
  /\ Completed
  /\ \E i, j \in 1..Len(province_counts) :
       province_counts[i].heat_spot_count > province_counts[j].heat_spot_count

\* C6: a range filter with start = end = D keeps the same detections as the
\* exact filter for D.
C6_RangeOfOneDayIsExact ==
  (Called /\ filter_mode = "range" /\ start_date = end_date) =>
    LET ex == filter_by_date(all_data, "exact", NoDate, NoDate, start_date)
    IN /\ df_filtered.index = ex.index
       /\ \A k \in 1..Len(ex.rows) :
            \A c \in all_data.columns : df_filtered.rows[k][c] = ex.rows[k][c]

\* A one-day range that keeps some detections and leaves others out.
C6_Witness ==
  /\ Completed
  /\ filter_mode = "range"
  /\ start_date = end_date
  /\ df_filtered.rows # <<>>
  /\ Len(df_filtered.rows) < Len(all_data.rows)

\* The intensity of the k-th filtered detection: its brightness, or 1 when the
\* dataset has no brightness column.
Intensity(k) ==
  IF "brightness" \in all_data.columns
  THEN all_data.rows[BasePos(k)]["brightness"]
  ELSE 1

\* C7: each point of the heat layer carries its detection's coordinates and
\* the weight (clamp(intensity, 250, 400) - 250) / (400 - 250), which lies in
\* [0, 1], is 0 at or below 250 (the default intensity 1 included) and 1 at or
\* above 400; the region counts depend on the positions only.
C7_WeightIsClampedAndScaled ==
  Completed =>
    /\ Len(normalized) = Len(heat_data)
    /\ heat_data # <<>> => Len(heat_data) = Len(df_filtered.rows)
    /\ \A k \in 1..Len(normalized) :
         LET b == Intensity(k)
             w == normalized[k][3]
             clamp == IF b < 250 THEN 250 ELSE IF b > 400 THEN 400 ELSE b
         IN /\ normalized[k][1] = all_data.rows[BasePos(k)]["latitude"]
            /\ normalized[k][2] = all_data.rows[BasePos(k)]["longitude"]
            /\ w.den = 400 - 250
            /\ w.num = clamp - 250
            /\ 0 <= w.num /\ w.num <= w.den
            /\ b <= 250 => w.num = 0
            /\ b >= 400 => w.num = w.den
    /\ \A k \in 1..Len(gdf_merged.rows) :
         gdf_merged.rows[k]["heat_spot_count"]
           = Cardinality(PointsIn(gdf_merged.rows[k]["geometry"]))

\* A heat layer with a weight strictly between 0 and 1 and a weight of 1.
C7_Witness ==
  /\ Completed
  /\ \E k \in 1..Len(normalized) :
       0 < normalized[k][3].num /\ normalized[k][3].num < normalized[k][3].den
  /\ \E k \in 1..Len(normalized) : normalized[k][3].num = normalized[k][3].den

\* C9: the session's base detections and base regions are each loaded at most
\* once and stay what the loaders returned: no run adds, removes or changes a
\* row or a column (no heat_spot_count on the regions, no brightness on the
\* detections), and the results of a run are those of its criteria applied to
\* the base data as loaded.
C9_BaseDataLoadedOnceAndUnchanged ==
  /\ n_data_loads <= 1
  /\ n_gdf_loads <= 1
  /\ Called =>
       /\ n_data_loads = 1
       /\ n_gdf_loads = 1
       /\ all_data = load_parquet_data_combined(disk_parquet)
       /\ gdf = load_shapefile(disk_shp)
       /\ "heat_spot_count" \notin gdf.columns
       /\ "brightness" \in all_data.columns
            <=> "brightness" \in disk_parquet[1].columns
       /\ \E r \in generate_heatmap(filter_mode, start_date, end_date, exact_date,
                                    load_shapefile(disk_shp),
                                    load_parquet_data_combined(disk_parquet)) :
            /\ r.error = error
            /\ r.province_counts = province_counts
            /\ r.gdf = gdf_merged
            /\ r.normalized = normalized

\* A later run of the session (the first run is in exact mode) on detections
\* without a brightness column, with points drawn and counted.
C9_Witness ==
  /\ Completed
  /\ filter_mode = "range"
  /\ "brightness" \notin disk_parquet[1].columns
  /\ normalized # <<>>
  /\ province_counts # <<>>

\* C10: the criteria passed to generate_heatmap have exactly one shape active
\* (exact: date_exact set, date_start and date_end unset; range: the reverse)
\* and in range mode date_start <= date_end.
C10_CriteriaWellFormed ==
  Called =>
    /\ filter_mode \in {"exact", "range"}
    /\ filter_mode = "exact" =>
         exact_date \in Dates /\ start_date = NoDate /\ end_date = NoDate
    /\ filter_mode = "range" =>
         /\ start_date \in Dates /\ end_date \in Dates /\ exact_date = NoDate
         /\ start_date <= end_date

====
